---------------------------- MODULE Spec2Model ----------------------------
(***************************************************************************)
(* Model of SpamGuard's model lifecycle (backend/app/services/ml.py).      *)
(*                                                                         *)
(* The registry is the directory settings.MODEL_PATH of *.pkl files.  It   *)
(* is shared by every process that uses MLService: "web", the process that *)
(* serves the routes (it constructs an MLService per request and may call  *)
(* every method), and "job", the background retraining job admin.py        *)
(* announces (it calls train_model).  Each process holds an MLService of   *)
(* its own.  predict, train_model and list_models are coroutines without a *)
(* suspension point, so inside one process a call runs to its end before   *)
(* another call of that process starts; what the other process can observe *)
(* in between are the file system effects of train_model: open(path,'wb')  *)
(* creates or truncates the file, pickle.dump fills it.  The two processes *)
(* are exchangeable in everything they both do, and the MLService of one   *)
(* is never read by the other, so what is checked for "web" holds for any  *)
(* process.  A call of "job" that raises before it opens its file changes  *)
(* nothing another process can see; only "web" makes such calls here.      *)
(*                                                                         *)
(* resp holds the outcome of the last call that ended, with what the call  *)
(* observed when it ran (the files being written, the newest artifact), so *)
(* that a statement about a call is a predicate of the state after it.     *)
(*                                                                         *)
(* Spec is the life cycle with both processes; its predict calls classify  *)
(* one probe text with model_version 'latest'.  SpecInfer is the "web"     *)
(* process alone, with predict called on every model_version, text and     *)
(* sink, the caller's cancellation of a training, and the request to the   *)
(* prediction endpoint as routes/__init__.py mounts it.  Texts are         *)
(* sequences of characters; probabilities are in percent.                  *)
(***************************************************************************)
EXTENDS Integers, Sequences, FiniteSets, TLC

\* ------------------------------------------------------------- bounds
MaxTrains   == 2    \* training runs that reach the save block, in total
MaxClock    == 1    \* wall clock seconds that pass (strftime has 1 s resolution)

Procs   == {"web", "job"}
Servers == {"web"}

\* ------------------------------------------------------- identifiers
\* File stems of the registry, and the values of model_version.
TsName(t)  == <<"model", t>>                 \* f"model_{timestamp}"
GivenName  == <<"spam_classifier_v1", 0>>    \* a caller-supplied model_name
NoName     == <<"", 0>>                      \* model_name = None
Latest     == <<"latest", 0>>
V999       == <<"v999", 0>>
Names      == {TsName(t) : t \in 0..MaxClock} \cup {GivenName}
ModelNameArgs == {NoName, GivenName}
Versions   == {Latest, V999, GivenName}

\* Fitted objects: a (vectorizer, model) pair is identified by the fit that
\* made it.
Unset        == <<"none", 0>>       \* self.vectorizer = None
DefaultModel == <<"default", 0>>    \* fitted by _create_default_model
SeedModel    == <<"seed", 0>>       \* an artifact present before the program started
RunModel(r)  == <<"run", r>>        \* fitted by the r-th train_model call

\* Training sets: a list of {'text', 'label'} items, kept by how many items
\* carry each label (the fit does not depend on their order; every text holds
\* a token the vectorizer keeps).
TrainingSets ==
    {[spam |-> 0, ham |-> 0], [spam |-> 1, ham |-> 0], [spam |-> 2, ham |-> 0],
     [spam |-> 0, ham |-> 1], [spam |-> 1, ham |-> 1]}
NoData == [spam |-> 0, ham |-> 0]
Size(data) == data.spam + data.ham     \* len(texts)

\* --------------------------------------------------------------- state
VARIABLES
    clock,      \* datetime.now(), in seconds
    tick,       \* file system time: orders st_mtime values
    registry,   \* models_dir: file stem -> file, or NoFile
    svc,        \* per process: the MLService's vectorizer and model
    pc,         \* per process: "idle", or "writing" inside train_model's dump
    tr,         \* per process: the locals of the train_model call in progress
    resp,       \* the last call that ended: who called, what it returned or raised
    done,       \* the reports train_model has returned so far
    nruns       \* train_model calls that reached the save block

vars == <<clock, tick, registry, svc, pc, tr, resp, done, nruns>>

NoFile == [state |-> "absent"]

\* The metrics dict of lines 180-184, computed from the fitted model on its
\* training set; {} where a pickled dict has none.
TrainMetrics(mdl) == <<"metrics", mdl>>
NoMetrics == <<>>

\* state "complete": a whole pickle of model_data; "partial": truncated bytes
\* (pickle.load raises); "nomodel": a pickled dict without the 'model' key.
File(st, vec, mdl, n, mt, cr) ==
    [state |-> st, vectorizer |-> vec, model |-> mdl, samples |-> n,
     metrics |-> IF st = "complete" THEN TrainMetrics(mdl) ELSE NoMetrics,
     mtime |-> mt, created |-> cr]

NoTrain == [path |-> NoName, run |-> 0, data |-> NoData, created |-> 0,
            before |-> [vectorizer |-> Unset, model |-> Unset], given |-> FALSE,
            peers |-> {}, shared |-> FALSE, was |-> NoFile, cancelled |-> FALSE]

Glob(reg) == {f \in Names : reg[f].state # "absent"}

\* The files a train_model call has opened and not yet filled.
BeingWritten ==
    {f \in Names : /\ registry[f].state = "partial"
                   /\ \E q \in Procs : pc[q] = "writing" /\ tr[q].path = f}

\* The whole artifacts of greatest creation time (the time train_model chose
\* the path, line 203).
NewestByCreated(reg) ==
    LET A == {f \in Glob(reg) : reg[f].state = "complete"}
    IN  {f \in A : \A g \in A : reg[g].created <= reg[f].created}


\* ------------------------------------------------- loading (lines 34-71)
\* _create_default_model: both fields are assigned, then fitted on the six
\* built-in examples.  Nothing is written to models_dir.
CreateDefaultModel == [vectorizer |-> DefaultModel, model |-> DefaultModel]

\* max(model_files, key=st_mtime): a file of greatest modification time.
LatestByMtime(reg) ==
    {f \in Glob(reg) : \A g \in Glob(reg) : reg[g].mtime <= reg[f].mtime}

\* LoadFile with the handler of lines 48-50 only logging: the fields stay as
\* the failed load left them.
LoadFile_NoFallback(reg, f) ==
    CASE reg[f].state = "complete" ->
            [vectorizer |-> reg[f].vectorizer, model |-> reg[f].model]
      [] reg[f].state = "nomodel"  ->
            [vectorizer |-> reg[f].vectorizer, model |-> Unset]
      [] OTHER                     -> [vectorizer |-> Unset, model |-> Unset]

\* Lines 40-43 and the handler of lines 48-50, for the selected file f:
\* pickle.load raises on truncated bytes; model_data['model'] raises KeyError
\* after self.vectorizer was assigned; either way _create_default_model then
\* assigns both fields.
LoadFile(reg, f) ==
    CASE reg[f].state = "complete" ->
            [vectorizer |-> reg[f].vectorizer, model |-> reg[f].model]
      [] reg[f].state = "nomodel"  -> CreateDefaultModel
      [] OTHER                     -> CreateDefaultModel

\* _load_latest_model as a whole: the possible outcomes (a tie of st_mtime is
\* broken by the directory order).
LoadLatestModel(reg) ==
    IF Glob(reg) = {}
    THEN {[active |-> CreateDefaultModel, source |-> "default_empty", file |-> NoName]}
    ELSE {[active |-> LoadFile(reg, f),
           source |-> IF reg[f].state = "complete" THEN "file" ELSE "default_error",
           file |-> f]
          : f \in LatestByMtime(reg)}

\* The constructor returns whatever the load met: the handler of lines 48-50
\* logs and goes on.
ConstructResp(p, o) ==
    [op |-> "construct", proc |-> p, ok |-> TRUE, error |-> "",
     source |-> o.source, file |-> o.file,
     active |-> o.active, halfWritten |-> {o.file} \cap BeingWritten,
     newest |-> NewestByCreated(registry)]

\* MLService(): lines 27-32.  The routes build one for every request.
Construct(p) ==
    /\ pc[p] = "idle"
    /\ \E o \in LoadLatestModel(registry) :
          /\ svc'  = [svc EXCEPT ![p] = o.active]
          /\ resp' = ConstructResp(p, o)
    /\ UNCHANGED <<clock, tick, registry, pc, tr, done, nruns>>

\* --------------------------------------------- predict (lines 73-114)
\* A text is a sequence of characters.
TextEmpty == <<>>
TextBlank == <<" ", "\t">>
TextShout == <<"W", "i", "n", " ", " ", "B", "U", "Y">>
TextHello == <<"h", "e", "l", "l", "o">>
TextMixed == <<"F", "r", "e", "e", " ", "m", "e", "e", "t", "i", "n", "g">>
TextTwice == <<"w", "i", "n", "w", "i", "n", " ">>
Texts     == {TextEmpty, TextBlank, TextShout, TextHello, TextMixed, TextTwice}
ProbeText == TextShout

\* str.lower(), on the letters the texts use.
UpperToLower == [c \in {"W", "B", "U", "Y", "F"} |->
                    CASE c = "W" -> "w" [] c = "B" -> "b" [] c = "U" -> "u"
                      [] c = "Y" -> "y" [] c = "F" -> "f"]
Lower(c) == IF c \in DOMAIN UpperToLower THEN UpperToLower[c] ELSE c
LowerText(text) == [i \in 1..Len(text) |-> Lower(text[i])]

IsSpace(c) == c \in {" ", "\t"}

\* str.split(): the maximal runs of characters that are not whitespace.
RECURSIVE SplitFrom(_, _, _, _)
SplitFrom(text, i, word, words) ==
    IF i > Len(text)
    THEN IF word = <<>> THEN words ELSE Append(words, word)
    ELSE IF IsSpace(text[i])
         THEN SplitFrom(text, i + 1, <<>>,
                        IF word = <<>> THEN words ELSE Append(words, word))
         ELSE SplitFrom(text, i + 1, Append(word, text[i]), words)
Split(text) == SplitFrom(text, 1, <<>>, <<>>)

\* ' '.join(words)
RECURSIVE Join(_)
Join(words) ==
    IF words = <<>> THEN <<>>
    ELSE IF Len(words) = 1 THEN words[1]
         ELSE words[1] \o <<" ">> \o Join(Tail(words))

\* _preprocess_text, lines 116-122.
PreprocessText(text) == Join(Split(LowerText(text)))

SpamKeywords ==
    << <<"b", "u", "y">>,
       <<"w", "i", "n">>,
       <<"f", "r", "e", "e">>,
       <<"u", "r", "g", "e", "n", "t">>,
       <<"c", "l", "i", "c", "k">>,
       <<"s", "u", "b", "s", "c", "r", "i", "b", "e">>,
       <<"v", "i", "a", "g", "r", "a">>,
       <<"l", "o", "t", "t", "e", "r", "y">> >>

HamKeywords ==
    << <<"m", "e", "e", "t", "i", "n", "g">>,
       <<"h", "e", "l", "l", "o">>,
       <<"t", "h", "a", "n", "k", "s">>,
       <<"s", "c", "h", "e", "d", "u", "l", "e">>,
       <<"p", "r", "o", "j", "e", "c", "t">> >>

\* keyword in text_lower
Contains(text, keyword) ==
    \E i \in 1..(Len(text) - Len(keyword) + 1) :
        SubSeq(text, i, i + Len(keyword) - 1) = keyword

\* _generate_explanation scanning the keywords of both labels.
GenerateExplanation_BothSets(text, prediction) ==
    LET text_lower     == LowerText(text)
        keywords       == SpamKeywords \o HamKeywords
        found_keywords == SelectSeq(keywords, LAMBDA k : Contains(text_lower, k))
    IN  [keywords_found |-> found_keywords,
         reason |-> <<"Detected", Len(found_keywords), "relevant keywords">>]

\* _generate_explanation, lines 124-145: called with the text as given and
\* the predicted class; the reason is f"Detected {len(found_keywords)} relevant
\* keywords".
GenerateExplanation(text, prediction) ==
    LET text_lower     == LowerText(text)
        keywords       == IF prediction = 1 THEN SpamKeywords ELSE HamKeywords
        found_keywords == SelectSeq(keywords, LAMBDA k : Contains(text_lower, k))
    IN  [keywords_found |-> found_keywords,
         reason |-> <<"Detected", Len(found_keywords), "relevant keywords">>]

\* The decision value of a fitted (vectorizer, model) pair on a processed
\* text, lines 89 and 92-93.  The fit is not computed here: a fixed function
\* of the fitted pair and of the processed text stands for it, which takes
\* negative, zero and positive values over the pairs and texts of the model.
Weight(mdl) ==
    CASE mdl[1] = "default" -> 3
      [] mdl[1] = "seed"    -> 5
      [] OTHER              -> mdl[2]
\* Decision with the wall clock among the features.
Decision_Timed(vec, mdl, processed_text) ==
    ((Weight(vec) + Weight(mdl) + Len(processed_text) + clock) % 7) - 3

Decision(vec, mdl, processed_text) ==
    ((Weight(vec) + Weight(mdl) + Len(processed_text)) % 7) - 3

\* LogisticRegression.predict_proba for two classes, in percent:
\* <<P(class 0), P(class 1)>>, P(class 1) the logistic function of the
\* decision value.
Logistic(d) ==
    CASE d <= -3 -> 5  [] d = -2 -> 12 [] d = -1 -> 27 [] d = 0 -> 50
      [] d = 1   -> 73 [] d = 2  -> 88 [] OTHER  -> 95
PredictProba(d) == <<100 - Logistic(d), Logistic(d)>>

\* LogisticRegression.predict: class 1 when the decision value is positive.
PredictClass(d) == IF d > 0 THEN 1 ELSE 0

\* confidence = float(prediction_proba[prediction]), line 96 with the
\* probability of class 1 in the place of the predicted class's.
Confidence_OfSpam(prediction_proba, prediction) == prediction_proba[2]

\* confidence = float(prediction_proba[prediction]), line 96.
Confidence(prediction_proba, prediction) == prediction_proba[prediction + 1]

\* The sink: db and user_id as the caller passed them.  "none": one of them
\* is missing; "up": a session that works; "down": a session whose every use
\* raises.
Sinks == {"none", "up", "down"}

\* _log_prediction, lines 147-158, with the TODO filled in by a write to db.
LogPrediction_Writes(sink) == IF sink = "down" THEN "raised" ELSE "returned"

\* _log_prediction, lines 147-158: its body is pass; db is not touched.
LogPrediction(sink) == "returned"

\* What predict would find in the registry under the name it was given
\* (it does not look).
ArtifactNamed(reg, version) ==
    IF version \in Names /\ reg[version].state = "complete"
    THEN [vectorizer |-> reg[version].vectorizer, model |-> reg[version].model]
    ELSE [vectorizer |-> Unset, model |-> Unset]

\* The names under which the registry holds the fitted pair active.
IdsOf(reg, active) ==
    {f \in Glob(reg) : /\ reg[f].state = "complete"
                       /\ reg[f].vectorizer = active.vectorizer
                       /\ reg[f].model = active.model}

\* _preprocess_text and _generate_explanation over the texts of the model,
\* evaluated once.
Processed   == [t \in Texts |-> PreprocessText(t)]
Explanation == [t \in Texts |-> [c \in {0, 1} |-> GenerateExplanation(t, c)]]

\* What a predict call returned, lines 105-110.
Returned(r) == <<r.prediction, r.confidence, r.explanation, r.model_version>>

\* The call that ended last was a predict call of the same service with the
\* same text and model_version, and it returned.
Repeats(p, version, text) ==
    /\ resp.op = "predict" /\ resp.ok /\ resp.proc = p
    /\ resp.requested = version /\ resp.text = text

PredictFailed(p, version, text, sink, error) ==
    [op |-> "predict", proc |-> p, ok |-> FALSE, error |-> error,
     requested |-> version, text |-> text, sink |-> sink,
     model_version |-> NoName, vec |-> Unset, model |-> Unset,
     known |-> version \in {Latest} \cup Glob(registry)]

\* The vectorizer is read at line 89 and the model at lines 92-93; the
\* model_version argument is not read before it is returned at line 109.
\* The call of _log_prediction is inside the try block of lines 81-114, whose
\* handler raises again.
Predict(p, version, text, sink) ==
    /\ pc[p] = "idle"
    /\ resp' =
          IF svc[p].vectorizer = Unset \/ svc[p].model = Unset
          THEN PredictFailed(p, version, text, sink, "ValueError")
          ELSE LET processed_text   == Processed[text]
                   d                == Decision(svc[p].vectorizer, svc[p].model, processed_text)
                   prediction_proba == PredictProba(d)
                   prediction       == PredictClass(d)
                   confidence       == Confidence(prediction_proba, prediction)
                   explanation      == Explanation[text][prediction]
                   logged           == IF sink # "none" THEN LogPrediction(sink)
                                       ELSE "skipped"
               IN  IF logged = "raised"
                   THEN PredictFailed(p, version, text, sink, "SinkError")
                   ELSE [op |-> "predict", proc |-> p, ok |-> TRUE, error |-> "",
                         requested |-> version, text |-> text, sink |-> sink,
                         prediction |-> IF prediction = 1 THEN "spam" ELSE "ham",
                         confidence |-> confidence,
                         explanation |-> explanation,
                         model_version |-> version,
                         vec |-> svc[p].vectorizer, model |-> svc[p].model,
                         proba |-> prediction_proba,
                         repeats |-> Repeats(p, version, text),
                         previous |-> IF Repeats(p, version, text)
                                      THEN Returned(resp) ELSE <<>>,
                         named |-> ArtifactNamed(registry, version),
                         ids |-> IdsOf(registry, svc[p]),
                         known |-> version \in {Latest} \cup Glob(registry)]
    /\ UNCHANGED <<clock, tick, registry, svc, pc, tr, done, nruns>>

\* ----------------------------------------- list_models (lines 225-248)
\* One summary per file pickle.load accepts; "created" is st_mtime.
Listable(reg) == {f \in Glob(reg) : reg[f].state # "partial"}

\* stamped and whole are not in the dict: the artifact's creation time, and
\* whether _load_latest_model can load the file.
Summary(reg, f) ==
    [name |-> f, metrics |-> reg[f].metrics, training_samples |-> reg[f].samples,
     created |-> reg[f].mtime,
     stamped |-> reg[f].created, whole |-> reg[f].state = "complete"]

\* sorted(models, key=created, reverse=True): the orders it can return.
SortedByCreated(reg) ==
    LET S == Listable(reg)
        n == Cardinality(S)
    IN  {[i \in 1..n |-> Summary(reg, s[i])] :
            s \in {t \in [1..n -> S] :
                     /\ \A i, j \in 1..n : i # j => t[i] # t[j]
                     /\ \A i \in 1..n : \A j \in 1..n :
                           i < j => reg[t[i]].mtime >= reg[t[j]].mtime}}

\* list_models removing the files pickle.load rejects.
ListModels_Pruning(p) ==
    /\ pc[p] = "idle"
    /\ \E l \in SortedByCreated(registry) :
          resp' = [op |-> "list", proc |-> p, ok |-> TRUE, models |-> l,
                   halfWritten |-> BeingWritten,
                   valid |-> {f \in Glob(registry) : registry[f].state = "complete"}]
    /\ registry' = [f \in Names |->
                      IF registry[f].state = "partial" THEN NoFile ELSE registry[f]]
    /\ UNCHANGED <<clock, tick, svc, pc, tr, done, nruns>>

ListModels(p) ==
    /\ pc[p] = "idle"
    /\ \E l \in SortedByCreated(registry) :
          resp' = [op |-> "list", proc |-> p, ok |-> TRUE, models |-> l,
                   halfWritten |-> BeingWritten,
                   valid |-> {f \in Glob(registry) : registry[f].state = "complete"}]
    /\ UNCHANGED <<clock, tick, registry, svc, pc, tr, done, nruns>>

\* ----------------------------------------- train_model (lines 160-223)
Labels(data) == (IF data.spam > 0 THEN {1} ELSE {}) \cup (IF data.ham > 0 THEN {0} ELSE {})

\* Lines 176-177.  fit_transform raises ValueError on no documents (empty
\* vocabulary); LogisticRegression.fit raises ValueError on fewer than two
\* classes, after the vectorizer was fitted.  "ok" otherwise.
FitOutcome(data) ==
    IF Size(data) = 0 THEN [ok |-> FALSE, error |-> "ValueError", fitted |-> FALSE]
    ELSE IF Cardinality(Labels(data)) < 2
         THEN [ok |-> FALSE, error |-> "ValueError", fitted |-> TRUE]
         ELSE [ok |-> TRUE, error |-> "", fitted |-> TRUE]

\* Lines 199-204: the file stem the artifact is written under.
ModelPath(model_name, now) ==
    IF model_name # NoName THEN model_name ELSE TsName(now)

\* ActiveAfterTrain with self.vectorizer assigned before the with-block and
\* self.model after it.
ActiveAfterTrain_Torn(old, run, saved) ==
    IF saved THEN [vectorizer |-> RunModel(run), model |-> RunModel(run)]
    ELSE [vectorizer |-> RunModel(run), model |-> old.model]

\* ActiveAfterTrain with both assignments before the with-block.
ActiveAfterTrain_SwapFirst(old, run, saved) ==
    [vectorizer |-> RunModel(run), model |-> RunModel(run)]

\* Lines 206-211: self.vectorizer and self.model after the with-block, given
\* whether open and pickle.dump returned (saved) or raised.
ActiveAfterTrain(old, run, saved) ==
    IF saved THEN [vectorizer |-> RunModel(run), model |-> RunModel(run)] ELSE old

\* The texts of a training set: every spam item carries TextShout, every ham
\* item TextHello.
ExampleTexts(data) ==
    (IF data.spam > 0 THEN {TextShout} ELSE {}) \cup
    (IF data.ham > 0 THEN {TextHello} ELSE {})

\* What train_model hands to fit_transform for an item's text, lines 168 and
\* 176: the text as it is.
FitInput(text) == text

\* model_path.name, line 216: the file name with its suffix.
PathName(path) == Append(path, ".pkl")

\* What train_model returned (model_name, metrics, training_samples) or
\* raised, with the locals of the call: path is model_path, was the file
\* that was at model_path before the call, cancelled whether the caller
\* cancelled the call while it ran.
TrainResp(p, ok, error, fitted, data, path, given, run, before, peers) ==
    [op |-> "train", proc |-> p, ok |-> ok, error |-> error, fitted |-> fitted, data |-> data,
     model_name |-> PathName(path), path |-> path,
     given |-> given, run |-> run, training_samples |-> Size(data),
     metrics |-> IF ok THEN TrainMetrics(RunModel(run)) ELSE NoMetrics,
     before |-> before, peers |-> peers,
     fed |-> IF fitted THEN {FitInput(t) : t \in ExampleTexts(data)} ELSE {},
     was |-> tr[p].was, cancelled |-> tr[p].cancelled]

\* Lines 166-177 when the fit raises (model_name is not read before line 199):
\* the handler of lines 221-223 re-raises.
TrainFitFails(p, data) ==
    /\ pc[p] = "idle"
    /\ ~FitOutcome(data).ok
    /\ resp' =
          TrainResp(p, FALSE, FitOutcome(data).error, FitOutcome(data).fitted, data,
                    NoName, FALSE, 0, svc[p], {})
    /\ UNCHANGED <<clock, tick, registry, svc, pc, tr, done, nruns>>

\* Lines 166-206 when open raises (OSError): no file is created or changed.
TrainOpenFails(p, data, model_name) ==
    /\ pc[p] = "idle"
    /\ FitOutcome(data).ok
    /\ svc'  = [svc EXCEPT ![p] = ActiveAfterTrain(svc[p], nruns + 1, FALSE)]
    /\ resp' =
          TrainResp(p, FALSE, "OSError", TRUE, data, ModelPath(model_name, clock),
                    model_name # NoName, 0, svc[p], {})
    /\ UNCHANGED <<clock, tick, registry, pc, tr, done, nruns>>

\* Lines 166-206 up to and including open(model_path, 'wb'): the fit, the
\* choice of the path, and the creation or truncation of the file.  Another
\* process that is writing the same path loses what it wrote so far.
TrainBegin(p, data, model_name) ==
    /\ pc[p] = "idle"
    /\ FitOutcome(data).ok
    /\ nruns < MaxTrains
    /\ LET path    == ModelPath(model_name, clock)
           run     == nruns + 1
           others  == {q \in Procs \ {p} : pc[q] = "writing"}
           sharing == {q \in others : tr[q].path = path}
       IN  /\ nruns' = run
           /\ tick'  = tick + 1
           /\ registry' = [registry EXCEPT ![path] =
                 File("partial", Unset, Unset, 0, tick + 1, tick + 1)]
           /\ tr' = [q \in Procs |->
                 IF q = p
                 THEN [path |-> path, run |-> run, data |-> data,
                       created |-> tick + 1, before |-> svc[p],
                       given |-> model_name # NoName,
                       peers |-> {tr[o].run : o \in others},
                       shared |-> sharing # {},
                       was |-> registry[path], cancelled |-> FALSE]
                 ELSE IF q \in others
                      THEN [tr[q] EXCEPT !.peers = @ \cup {run},
                                         !.shared = @ \/ q \in sharing]
                      ELSE tr[q]]
           /\ pc' = [pc EXCEPT ![p] = "writing"]
    /\ UNCHANGED <<clock, svc, resp, done>>

\* What the file holds once pickle.dump of process p has returned: p's
\* artifact, or, when another process wrote the same path meanwhile, possibly
\* bytes of both.
DumpedFiles(p, now) ==
    {File("complete", RunModel(tr[p].run), RunModel(tr[p].run), Size(tr[p].data),
          now, tr[p].created)}
    \cup (IF tr[p].shared
          THEN {File("partial", Unset, Unset, 0, now, tr[p].created)}
          ELSE {})

\* Lines 207-219: pickle.dump returns, the file is closed, the active model is
\* replaced and the report returned.
TrainDumpOk(p) ==
    /\ pc[p] = "writing"
    /\ tick' = tick + 1
    /\ \E file \in DumpedFiles(p, tick + 1) :
          registry' = [registry EXCEPT ![tr[p].path] = file]
    /\ svc'  = [svc EXCEPT ![p] = ActiveAfterTrain(svc[p], tr[p].run, TRUE)]
    /\ resp' =
          TrainResp(p, TRUE, "", TRUE, tr[p].data, tr[p].path, tr[p].given, tr[p].run,
                    tr[p].before, tr[p].peers)
    /\ done' = done \cup {[run |-> tr[p].run, model_name |-> PathName(tr[p].path),
                            given |-> tr[p].given, peers |-> tr[p].peers,
                            at |-> tick + 1]}
    /\ pc' = [pc EXCEPT ![p] = "idle"]
    /\ tr' = [tr EXCEPT ![p] = NoTrain]
    /\ UNCHANGED <<clock, nruns>>

\* Lines 207 and 221-223: pickle.dump raises (the disk is full, say).  The
\* file stays as it is; nothing removes it.
TrainDumpFails(p) ==
    /\ pc[p] = "writing"
    /\ svc'  = [svc EXCEPT ![p] = ActiveAfterTrain(svc[p], tr[p].run, FALSE)]
    /\ resp' =
          TrainResp(p, FALSE, "OSError", TRUE, tr[p].data, tr[p].path, tr[p].given, tr[p].run,
                    tr[p].before, tr[p].peers)
    /\ pc' = [pc EXCEPT ![p] = "idle"]
    /\ tr' = [tr EXCEPT ![p] = NoTrain]
    /\ UNCHANGED <<clock, tick, registry, done, nruns>>

\* The caller cancels the task that awaits train_model.  CancelledError is
\* raised in a coroutine at its next suspension point, and lines 166-219 have
\* none: the call goes on as if nothing had happened.
CancelTrain(p) ==
    /\ pc[p] = "writing"
    /\ ~tr[p].cancelled
    /\ tr' = [tr EXCEPT ![p].cancelled = TRUE]
    /\ UNCHANGED <<clock, tick, registry, svc, pc, resp, done, nruns>>

\* ------------------------------------- the prediction endpoint (routes)
\* routes/__init__.py: line 8 binds the name api_router to the router of
\* routes/api.py, line 12 binds it again to a new APIRouter, and lines 15-31
\* include three routers into that one.
ApiRouter == "APIRouter()"
Includes ==
    {[router |-> "auth_router",  prefix |-> "/auth"],
     [router |-> ApiRouter,      prefix |-> "/predict"],
     [router |-> "admin_router", prefix |-> "/admin"]}

\* Whether the router that holds the predict route is served.
PredictionMounted == \E i \in Includes : i.router = "routes.api.router"

\* What importing app.routes ends in.  A router included into itself: FastAPI
\* raises AssertionError, or walks a list of routes that grows as it walks.
ImportOutcomes ==
    IF \E i \in Includes : i.router = ApiRouter
    THEN {"AssertionError", "NoTermination"}
    ELSE {"imported"}

\* get_current_user, auth.py lines 168-185: no Authorization header and a
\* token jwt.decode rejects give 401; verify_token does not read the type
\* of a token it can decode.
Tokens == {"missing", "invalid", "access", "refresh"}
GetCurrentUser(token) ==
    IF token \in {"missing", "invalid"} THEN "401" ELSE "user"

\* POST /api/v1/predict as test_api.py sends it.  Status 0 is a request that
\* got no response (test_api.py lines 55-60).
HttpPredict(token) ==
    /\ \E b \in ImportOutcomes :
          resp' =
             IF b # "imported"
             THEN [op |-> "http", proc |-> "web", token |-> token, import |-> b,
                   status |-> 0, reached |-> FALSE]
             ELSE IF ~PredictionMounted
             THEN [op |-> "http", proc |-> "web", token |-> token, import |-> b,
                   status |-> 404, reached |-> FALSE]
             ELSE IF GetCurrentUser(token) = "401"
             THEN [op |-> "http", proc |-> "web", token |-> token, import |-> b,
                   status |-> 401, reached |-> FALSE]
             ELSE [op |-> "http", proc |-> "web", token |-> token, import |-> b,
                   status |-> 200, reached |-> TRUE]
    /\ UNCHANGED <<clock, tick, registry, svc, pc, tr, done, nruns>>

\* The wall clock reaches the next second.
Tick ==
    /\ clock < MaxClock
    /\ clock' = clock + 1
    /\ UNCHANGED <<tick, registry, svc, pc, tr, resp, done, nruns>>

\* ------------------------------------------------------- specification
\* The registry a process can find when it starts: empty, or holding one
\* file that was put there before: a whole artifact, truncated bytes, or a
\* pickled dict without the 'model' key.
SeedFiles ==
    {NoFile,
     File("complete", SeedModel, SeedModel, 2, 0, 0),
     File("partial", Unset, Unset, 0, 0, 0),
     File("nomodel", SeedModel, Unset, 0, 0, 0)}

InitRegistries ==
    {[f \in Names |-> IF f = GivenName THEN seed ELSE NoFile] : seed \in SeedFiles}

Init ==
    /\ clock = 0
    /\ tick = 0
    /\ nruns = 0
    /\ registry \in InitRegistries
    /\ pc = [p \in Procs |-> "idle"]
    /\ tr = [p \in Procs |-> NoTrain]
    /\ done = {}
    /\ \E o \in LoadLatestModel(registry) :
          /\ svc  = [p \in Procs |-> o.active]
          /\ resp = ConstructResp("web", o)

Next ==
    \/ Tick
    \/ \E p \in Servers : Construct(p)
    \/ \E p \in Servers : Predict(p, Latest, ProbeText, "none")
    \/ \E p \in Servers : ListModels(p)
    \/ \E p \in Servers, d \in TrainingSets : TrainFitFails(p, d)
    \/ \E p \in Servers, d \in TrainingSets, m \in ModelNameArgs : TrainOpenFails(p, d, m)
    \/ \E p \in Procs, d \in TrainingSets, m \in ModelNameArgs : TrainBegin(p, d, m)
    \/ \E p \in Procs : TrainDumpOk(p)
    \/ \E p \in Procs : TrainDumpFails(p)

Spec == Init /\ [][Next]_vars

\* The "web" process alone within one second, with predict called on every
\* model_version, text and sink.
NextInfer ==
    \/ Construct("web")
    \/ \E v \in Versions, t \in Texts, s \in Sinks : Predict("web", v, t, s)
    \/ \E d \in TrainingSets, m \in ModelNameArgs : TrainBegin("web", d, m)
    \/ TrainDumpOk("web")
    \/ TrainDumpFails("web")
    \/ CancelTrain("web")
    \/ \E k \in Tokens : HttpPredict(k)
    \/ ListModels("web")

SpecInfer == Init /\ [][NextInfer]_vars

\* -------------------------------------------------------------- claims

C2_WriteThenSwap ==
    /\ \A p \in Procs : pc[p] = "writing" => svc[p] = tr[p].before
    /\ (resp.op = "train" /\ ~resp.ok) => svc[resp.proc] = resp.before
    /\ (resp.op = "train" /\ resp.ok) =>
          /\ resp.path \in Glob(registry)
          /\ svc[resp.proc] = [vectorizer |-> RunModel(resp.run),
                               model |-> RunModel(resp.run)]

\* pickle.dump raised in a call of a service that had trained before.
C2_Witness ==
    /\ resp.op = "train" /\ ~resp.ok /\ resp.run > 0
    /\ resp.before.model[1] = "run"
    /\ registry[resp.path].state = "partial"

\* C3 (as claimed): no list_models call and no startup load meets a file that
\* a train_model call is still writing.
C3_NoHalfWrittenArtifactSeen ==
    resp.op \in {"list", "construct"} => resp.halfWritten = {}

C5_ConcurrentTrainsDistinctIds ==
    \A a, b \in done :
        (a.run # b.run /\ ~a.given /\ ~b.given /\ b.run \in a.peers)
            => a.model_name # b.model_name

\* C6 (as claimed): a whole artifact of the registry never changes.
C6_ArtifactsImmutable ==
    [][\A f \in Names :
          registry[f].state = "complete" => registry'[f] = registry[f]]_vars

\* C7 (as claimed): the artifact a startup loads is one of greatest creation
\* time among the whole artifacts of the registry.
C7_LatestByCreationTime ==
    (resp.op = "construct" /\ resp.source = "file") => resp.file \in resp.newest

\* C8 (as claimed): a startup on an empty registry leaves the default
\* artifact in the registry.
C8_DefaultPersisted ==
    (resp.op = "construct" /\ resp.source = "default_empty") =>
        \E f \in Glob(registry) :
            registry[f].state = "complete" /\ registry[f].model = DefaultModel

\* C9 (as claimed): train_model on no examples or on examples of one label
\* raises InsufficientDataError before anything is fitted, writes no artifact
\* and leaves the active model alone.
C9_InsufficientDataRejected ==
    (resp.op = "train" /\ Cardinality(Labels(resp.data)) < 2) =>
        /\ ~resp.ok
        /\ resp.error = "InsufficientDataError"
        /\ ~resp.fitted
        /\ resp.run = 0
        /\ svc[resp.proc] = resp.before

\* C10 (as claimed): predict with a model_version that is neither "latest"
\* nor a file of the registry raises ModelNotFoundError.
C10_UnknownVersionRejected ==
    (resp.op = "predict" /\ ~resp.known) =>
        (~resp.ok /\ resp.error = "ModelNotFoundError")

\* C11: predict resolves the model by version.  With model_version omitted or
\* 'latest' it uses the active artifact; with a model_version that names
\* another artifact of the registry it uses that artifact's vectorizer and
\* model.
C11_VersionResolved ==
    (resp.op = "predict" /\ resp.ok) =>
        /\ resp.requested = Latest =>
              resp.vec # Unset /\ resp.model # Unset
        /\ (resp.requested # Latest /\ resp.named.model # Unset) =>
              /\ resp.vec = resp.named.vectorizer
              /\ resp.model = resp.named.model

\* C12: the model_version of a result is the id of the artifact that was
\* used, also when the caller passed 'latest' or nothing.
C12_VersionReported ==
    (resp.op = "predict" /\ resp.ok /\ resp.ids # {}) =>
        resp.model_version \in resp.ids

\* C13: a train_model call in progress does not block predict: as long as a
\* training has started and has not yet published its artifact, a predict
\* call of a service can start and complete.
C13_TrainDoesNotBlockPredict ==
    \A p \in Servers :
        (\E q \in Procs : pc[q] = "writing") =>
            ENABLED Predict(p, Latest, ProbeText, "none")

C15_ConfidenceOfReturnedLabel ==
    (resp.op = "predict" /\ resp.ok) =>
        /\ resp.prediction \in {"spam", "ham"}
        /\ resp.confidence = IF resp.prediction = "spam" THEN resp.proba[2]
                                                        ELSE resp.proba[1]
        /\ resp.confidence >= IF resp.prediction = "spam" THEN resp.proba[1]
                                                         ELSE resp.proba[2]
        /\ resp.confidence >= 50 /\ resp.confidence <= 100

C15_Witness ==
    /\ resp.op = "predict" /\ resp.ok
    /\ resp.prediction = "ham" /\ resp.confidence > 50

C17_SaveLoadRoundTrip ==
    (resp.op = "train" /\ resp.ok) =>
        LET f       == resp.path
            trained == RunModel(resp.run)
            loaded  == LoadFile(registry, f)
        IN  /\ f \in Listable(registry)
            /\ Summary(registry, f).metrics = resp.metrics
            /\ Summary(registry, f).training_samples = resp.training_samples
            /\ registry[f].state = "complete"
            /\ Decision(loaded.vectorizer, loaded.model, Processed[ProbeText])
                  = Decision(trained, trained, Processed[ProbeText])

\* C18: list_models returns the summaries ordered by the artifacts' creation
\* time, newest first: of two consecutive entries the first was created no
\* earlier than the second.
C18_ListNewestFirst ==
    resp.op = "list" =>
        \A i \in 1..(Len(resp.models) - 1) :
            resp.models[i].stamped >= resp.models[i + 1].stamped

\* C19: a corrupt registry entry never makes list_models fail: whatever mix
\* of valid and corrupt files the registry holds, list_models returns one
\* summary for each valid artifact and none for a corrupt one.
C19_ListSkipsCorrupt ==
    resp.op = "list" =>
        /\ resp.ok
        /\ \A i \in 1..Len(resp.models) : resp.models[i].whole
        /\ \A i, j \in 1..Len(resp.models) :
              resp.models[i].name = resp.models[j].name => i = j
        /\ {resp.models[i].name : i \in 1..Len(resp.models)} = resp.valid

\* C20: when the artifact selected for loading cannot be deserialized or
\* lacks a required field, the load fails with ModelCorruptError or
\* ModelLoadError and the call fails with it: no other model is put in the
\* artifact's place.
C20_CorruptLoadIsFatal ==
    (resp.op = "construct" /\ resp.source = "default_error") =>
        /\ ~resp.ok
        /\ resp.error \in {"ModelCorruptError", "ModelLoadError"}
        /\ resp.active.model = Unset

\* C21: cancelling a train_model call before it completes leaves the
\* previously active artifact active and leaves no partial artifact in the
\* registry: the file at the call's path is what it was before the call.
C21_CancelLeavesNoTrace ==
    (resp.op = "train" /\ resp.cancelled /\ pc[resp.proc] = "idle") =>
        /\ svc[resp.proc] = resp.before
        /\ registry[resp.path] = resp.was

\* C22: predict called with a text that is empty after preprocessing (the
\* empty string, or whitespace only) fails with EmptyInputError and returns
\* no label.
C22_EmptyInputRejected ==
    (resp.op = "predict" /\ PreprocessText(resp.text) = <<>>) =>
        (~resp.ok /\ resp.error = "EmptyInputError")

\* C23: the explanation's keywords_found holds exactly the keywords of the
\* predicted label's set that occur in the lower-cased text, each once, and
\* none of the other label's set; the reason states how many were found.
C23_ExplanationKeywords ==
    (resp.op = "predict" /\ resp.ok) =>
        LET own    == IF resp.prediction = "spam" THEN SpamKeywords ELSE HamKeywords
            other  == IF resp.prediction = "spam" THEN HamKeywords ELSE SpamKeywords
            found  == resp.explanation.keywords_found
            folded == LowerText(resp.text)
            occur  == {own[j] : j \in {i \in 1..Len(own) : Contains(folded, own[i])}}
        IN  /\ {found[i] : i \in 1..Len(found)} = occur
            /\ \A i, j \in 1..Len(found) : found[i] = found[j] => i = j
            /\ \A i \in 1..Len(found) : \A j \in 1..Len(other) : found[i] # other[j]
            /\ resp.explanation.reason
                  = <<"Detected", Cardinality(occur), "relevant keywords">>

\* A text that holds a keyword of each label, one of them in upper case.
C23_Witness ==
    /\ resp.op = "predict" /\ resp.ok /\ resp.text = TextMixed
    /\ resp.prediction = "spam"
    /\ Len(resp.explanation.keywords_found) = 1

\* C24: a request to the prediction endpoint that carries no valid access
\* token is answered 401 Unauthorized and does not reach MLService.predict.
C24_UnauthenticatedRejected ==
    (resp.op = "http" /\ resp.token # "access") =>
        (resp.status = 401 /\ ~resp.reached)

\* The report of the train_model call that completed last.
LastDone == CHOOSE d \in done : \A e \in done : e.at <= d.at

\* C25: after a train_model call has completed, a predict with model_version
\* 'latest' uses the artifact that call produced until another training
\* succeeds: the service that trained has it active, and so has an MLService
\* constructed afterwards (the routes construct one per request).
C25_LatestTrainedServes ==
    /\ (resp.op = "train" /\ resp.ok) =>
          svc[resp.proc] = [vectorizer |-> RunModel(resp.run),
                            model |-> RunModel(resp.run)]
    /\ (resp.op = "construct" /\ done # {}) =>
          resp.active = [vectorizer |-> RunModel(LastDone.run),
                         model |-> RunModel(LastDone.run)]

\* C26: the name a successful train_model returns identifies the persisted
\* artifact: list_models afterwards has an entry of that name, whose
\* training sample count is the number of examples passed to train_model.
C26_ReturnedIdListed ==
    (resp.op = "train" /\ resp.ok /\ pc[resp.proc] = "idle") =>
        \E f \in Listable(registry) :
            /\ Summary(registry, f).name = resp.model_name
            /\ Summary(registry, f).training_samples = Size(resp.data)

\* C27: the normalization before featurization is the same at training and
\* at inference: each example text train_model hands to the vectorizer has
\* gone through _preprocess_text, as the text predict hands to it has.
C27_SameNormalization ==
    (resp.op = "train" /\ resp.fitted) =>
        resp.fed = {PreprocessText(t) : t \in ExampleTexts(resp.data)}

\* What list_models returns for a registry, and what a new MLService loads
\* from it.
ListEntries(reg) ==
    {[name |-> f, metrics |-> Summary(reg, f).metrics,
      training_samples |-> Summary(reg, f).training_samples] : f \in Listable(reg)}
Loads(reg) == {o.active : o \in LoadLatestModel(reg)}

\* C28: a train_model call that fails, in the fit or while writing the file,
\* leaves the registry as it was: list_models returns the entries it
\* returned before the call and a new MLService loads what it loaded before.
C28_FailedTrainLeavesRegistry ==
    (resp.op = "train" /\ ~resp.ok /\ pc[resp.proc] = "idle") =>
        LET before == IF resp.run = 0 THEN registry
                      ELSE [registry EXCEPT ![resp.path] = resp.was]
        IN  /\ ListEntries(registry) = ListEntries(before)
            /\ Loads(registry) = Loads(before)

\* C29: predict and list_models are read-only: a call of either leaves the
\* vectorizer and model of every service and every file of the registry as
\* they were.
C29_ReadsLeaveModelState ==
    [][(resp' # resp /\ resp'.op \in {"predict", "list"})
          => (svc' = svc /\ registry' = registry)]_vars

\* list_models has met a file pickle.load rejects and a whole artifact.
C29_Witness ==
    /\ resp.op = "list" /\ Len(resp.models) > 0
    /\ \E f \in Glob(registry) : registry[f].state = "partial"
    /\ \A p \in Procs : svc[p].model # Unset

=============================================================================
